---- MODULE Spec2Model ----
(***************************************************************************)
(* sap::bicgstabl (src/sap/bicgstab2.h): the preconditioned BiCGStab(L)    *)
(* Krylov solver, as a state machine over the blocks of the routine.       *)
(*                                                                         *)
(* Scalars are exact rationals <<num, den>> (den > 0, lowest terms): the   *)
(* vector primitives are taken as exact.  Norms are kept squared: nrm2 is  *)
(* only ever compared, and squaring is monotone on non-negative values.    *)
(***************************************************************************)
EXTENDS Integers, Sequences, FiniteSets, TLC

\* ------------------------------------------------------------------------
\* Bounds of the model
\* ------------------------------------------------------------------------

\* largest iteration budget (in whole iterations) given to the Monitor
MaxIterations == 2

\* calls to monitor.stop() are counted up to this many
MaxCount == 3

\* ------------------------------------------------------------------------
\* Exact scalar arithmetic (ValueType)
\* ------------------------------------------------------------------------

\* The operators below bind their arguments once, as the values of a
\* one-element set, before using them: an argument is then evaluated a single
\* time however often the body refers to it.
Only(S) == CHOOSE s \in S : TRUE

Abs(k) == IF k < 0 THEN -k ELSE k

RECURSIVE Gcd(_, _)
Gcd(m, k) == IF k = 0 THEN m ELSE Only({Gcd(p[1], p[2]) : p \in {<<k, m % k>>}})

\* p / q in lowest terms, with a positive denominator
Norm(p, q) ==
    Only({ <<(IF v[2] < 0 THEN -v[1] ELSE v[1]) \div v[3], Abs(v[2]) \div v[3]>> :
           v \in { <<w[1], w[2], Gcd(Abs(w[1]), Abs(w[2]))>> : w \in {<<p, q>>} } })

Rat(k) == <<k, 1>>
Zero == <<0, 1>>
One == <<1, 1>>

IsZero(a) == a[1] = 0

Neg(a) == Only({<<-v[1], v[2]>> : v \in {a}})
Add(a, c) ==
    Only({Norm(v[1][1] * v[2][2] + v[2][1] * v[1][2], v[1][2] * v[2][2]) : v \in {<<a, c>>}})
Sub(a, c) == Add(a, Neg(c))
Mul(a, c) == Only({Norm(v[1][1] * v[2][1], v[1][2] * v[2][2]) : v \in {<<a, c>>}})
\* a / c; a zero divisor yields the placeholder Zero, and every division
\* site records the zero divisor in obs.badDiv
Div(a, c) ==
    Only({IF v[2][1] = 0 THEN Zero ELSE Norm(v[1][1] * v[2][2], v[1][2] * v[2][1]) :
          v \in {<<a, c>>}})
Less(a, c) == \E v \in {<<a, c>>} : v[1][1] * v[2][2] < v[2][1] * v[1][2]
Leq(a, c) == \E v \in {<<a, c>>} : v[1][1] * v[2][2] <= v[2][1] * v[1][2]

\* ------------------------------------------------------------------------
\* Vector primitives (cusp::blas) and operator application (cusp::multiply)
\* ------------------------------------------------------------------------

RECURSIVE SumTo(_, _)
\* f[1] + ... + f[k]
SumTo(f, k) == IF k = 0 THEN Zero ELSE Add(SumTo(f, k - 1), f[k])

\* cusp::blas::dotc(v, w), real scalars
dotc(v, w) ==
    Only({SumTo([i \in 1..Len(p[1]) |-> Mul(p[1][i], p[2][i])], Len(p[1])) :
          p \in {<<v, w>>}})

\* square of cusp::blas::nrm2(v)
nrm2sq(v) == Only({dotc(p, p) : p \in {v}})

\* cusp::blas::axpby(v, w, out, a, c): out <- a*v + c*w
axpby(v, w, a, c) ==
    Only({[i \in 1..Len(p[1]) |-> Add(Mul(p[3], p[1][i]), Mul(p[4], p[2][i]))] :
          p \in {<<v, w, a, c>>}})

\* cusp::blas::axpy(v, w, a): w <- w + a*v
axpy(v, w, a) ==
    Only({[i \in 1..Len(p[1]) |-> Add(p[2][i], Mul(p[3], p[1][i]))] :
          p \in {<<v, w, a>>}})

\* cusp::multiply(M, v, out): out <- M * v
multiply(M, v) ==
    Only({[i \in 1..Len(p[1]) |-> dotc(p[1][i], p[2])] : p \in {<<M, v>>}})

\* integer vectors and matrices as scalar ones
Vec(s) == [i \in 1..Len(s) |-> Rat(s[i])]
Mat(m) == [i \in 1..Len(m) |-> Vec(m[i])]

\* an unassigned scalar (a declared but not yet written ValueType)
Undef == <<0, 0>>

\* ------------------------------------------------------------------------
\* Monitor (sap/monitor.h), by its contract: a budget of whole iterations
\* advanced in quarters by increment(0.25f), a tolerance on the (squared)
\* residual norm, and a policy for needCheckConvergence
\* ------------------------------------------------------------------------

Policies == {"always", "never", "tol"}

NewMonitor(maxIterations, tol, policy) ==
    [state |-> "Continue", quarters |-> 0, maxIterations |-> maxIterations,
     tol |-> tol, policy |-> policy, stag |-> 0, code |-> 0, reason |-> "",
     residual |-> Undef]

\* the budget is spent once the iteration count reaches maxIterations
Exhausted(m) == m.quarters >= 4 * m.maxIterations

\* monitor.increment(0.25f).  The count stops growing one full iteration past
\* the budget, a value no call that honours finished() gets to.
increment(m) ==
    [m EXCEPT !.quarters = IF @ < 4 * m.maxIterations + 4 THEN @ + 1 ELSE @]

\* monitor.needCheckConvergence(r_norm)
needCheckConvergence(m, nrm) ==
    CASE m.policy = "always" -> TRUE
      [] m.policy = "never" -> FALSE
      [] OTHER -> Leq(nrm, m.tol)

\* monitor.finished(r_norm_act): the Monitor after the call, and what it returns
finishedNorm(m, nrm) ==
    LET m1 == [m EXCEPT !.residual = nrm]
    IN  IF m.state # "Continue" THEN [mon |-> m1, ret |-> TRUE]
        ELSE IF Leq(nrm, m.tol)
             THEN [mon |-> [m1 EXCEPT !.state = "Converged"], ret |-> TRUE]
        ELSE IF Exhausted(m)
             THEN [mon |-> [m1 EXCEPT !.state = "Failed", !.code = -1,
                                      !.reason = "maximum iterations reached"],
                   ret |-> TRUE]
        ELSE [mon |-> m1, ret |-> FALSE]

\* monitor.finished()
finished(m) == m.state # "Continue" \/ Exhausted(m)

\* monitor.stop(code, reason)
stop(m, code, reason) == [m EXCEPT !.state = "Failed", !.code = code, !.reason = reason]

\* monitor.incrementStag() / monitor.resetStag()
incrementStag(m) == [m EXCEPT !.stag = @ + 1]
resetStag(m) == [m EXCEPT !.stag = 0]

\* monitor.converged()
converged(m) == m.state = "Converged"

\* monitor.updateResidual(norm)
updateResidual(m, nrm) == [m EXCEPT !.residual = nrm]

\* ------------------------------------------------------------------------
\* Inputs: the linear systems and Monitor settings a call is made with
\* ------------------------------------------------------------------------

Systems ==
    { [A |-> <<<<2, 0>>, <<0, 4>>>>, b |-> <<2, 4>>, x |-> <<0, 0>>, P |-> <<<<1, 0>>, <<0, 1>>>>],
      [A |-> <<<<2, 0>>, <<0, 4>>>>, b |-> <<2, 4>>, x |-> <<1, 1>>, P |-> <<<<1, 0>>, <<0, 1>>>>],
      [A |-> <<<<2, 0>>, <<0, 4>>>>, b |-> <<2, 4>>, x |-> <<1, 1>>, P |-> <<<<2, 0>>, <<0, 1>>>>],
      [A |-> <<<<1, 0>>, <<0, 0>>>>, b |-> <<1, 1>>, x |-> <<0, 0>>, P |-> <<<<1, 0>>, <<0, 1>>>>],
      [A |-> <<<<1, 0, 0>>, <<0, 0, 0>>, <<0, 0, 1>>>>, b |-> <<1, 1, 1>>, x |-> <<0, 0, 0>>, P |-> <<<<1, 0, 0>>, <<0, 1, 0>>, <<0, 0, 1>>>>],
      [A |-> <<<<0, 1>>, <<-1, 0>>>>, b |-> <<1, 0>>, x |-> <<0, 0>>, P |-> <<<<1, 0>>, <<0, 1>>>>],
      [A |-> <<<<2>>>>, b |-> <<2>>, x |-> <<0>>, P |-> <<<<1>>>>],
      [A |-> <<<<2>>>>, b |-> <<2>>, x |-> <<1>>, P |-> <<<<2>>>>],
      [A |-> <<<<-1, -1>>, <<2, 1>>>>, b |-> <<0, 2>>, x |-> <<1, 0>>, P |-> <<<<2, 0>>, <<0, 1>>>>],
      [A |-> <<<<-1, 0>>, <<2, -1>>>>, b |-> <<0, 2>>, x |-> <<1, 0>>, P |-> <<<<1, 0>>, <<0, 1>>>>],
      [A |-> <<<<0, -1>>, <<-1, -1>>>>, b |-> <<1, 1>>, x |-> <<0, 1>>, P |-> <<<<1, 1>>, <<0, 1>>>>],
      [A |-> <<<<1, 0>>, <<0, 1>>>>, b |-> <<0, 1>>, x |-> <<0, 1>>, P |-> <<<<1, 1>>, <<0, 1>>>>],
      [A |-> <<<<0, 0>>, <<1, 2>>>>, b |-> <<0, 1>>, x |-> <<1, 0>>, P |-> <<<<1, 0>>, <<0, 1>>>>],
      [A |-> <<<<1, 0>>, <<2, 0>>>>, b |-> <<2, 2>>, x |-> <<1, 1>>, P |-> <<<<1, 0>>, <<0, 1>>>>],
      [A |-> <<<<0, 0>>, <<1, 0>>>>, b |-> <<1, 2>>, x |-> <<1, 1>>, P |-> <<<<2, 0>>, <<0, 1>>>>],
      [A |-> <<<<0, 1>>, <<2, 0>>>>, b |-> <<1, 2>>, x |-> <<0, 1>>, P |-> <<<<1, 1>>, <<0, 1>>>>],
      [A |-> <<<<1, 2>>, <<1, 0>>>>, b |-> <<1, 1>>, x |-> <<0, 1>>, P |-> <<<<1, 1>>, <<0, 1>>>>],
      [A |-> <<<<1, 1>>, <<0, 2>>>>, b |-> <<1, 0>>, x |-> <<1, 1>>, P |-> <<<<1, 1>>, <<0, 1>>>>],
      [A |-> <<<<0, 0, -1>>, <<-1, -1, 1>>, <<0, -1, -1>>>>, b |-> <<0, 1, 1>>, x |-> <<0, 0, 0>>, P |-> <<<<1, 0, 0>>, <<0, 1, 0>>, <<0, 0, 1>>>>],
      [A |-> <<<<2, 0, 1>>, <<-1, 1, -1>>, <<0, 1, 0>>>>, b |-> <<0, 2, 0>>, x |-> <<0, 0, 0>>, P |-> <<<<1, 0, 0>>, <<0, 1, 0>>, <<0, 0, 1>>>>],
      [A |-> <<<<1, 2, 1>>, <<1, 2, 1>>, <<-1, 0, -1>>>>, b |-> <<1, 0, 0>>, x |-> <<0, 0, 0>>, P |-> <<<<1, 0, 0>>, <<0, 1, 0>>, <<0, 0, 1>>>>] }

Degrees == {1, 2}

Tolerances == {Zero, One}

\* ------------------------------------------------------------------------
\* State of one call of bicgstabl
\* ------------------------------------------------------------------------

VARIABLES
    A, P, b, L,          \* the operator, the preconditioner, the right-hand side, the degree
    x0,                  \* the value of x on entry
    monitor,
    x, r0, r, u, xx, rr, uu, x_min,
    rho0, rho1, alpha, omega, gamma_j,
    tao, sigma, gamma, gamma_prime, gamma_primeprime,
    r_norm, r_norm_act, r_norm_min,
    j,                   \* index of the running for loop
    pc,                  \* the block of the routine that runs next
    obs                  \* record of the calls made so far (observation only):
                         \*   nStop, nUpdate, nFin  calls of stop(), updateResidual(),
                         \*                         finished(norm)
                         \*   needArg, finArg       last argument of needCheckConvergence
                         \*                         and of finished(norm)
                         \*   finTrue               some finished call has returned true
                         \*   nApply                applications of A and P inside the loop
                         \*   badDiv                some division had a zero divisor
                         \*   iterates              the values xx has taken

inputs == <<A, P, b, L, x0>>
snapshot == <<x, r, u>>
bicgScalars == <<rho0, rho1, alpha, omega, gamma_j>>
mrScalars == <<tao, sigma, gamma, gamma_prime, gamma_primeprime>>
norms == <<r_norm, r_norm_act, r_norm_min>>
vars == <<inputs, monitor, snapshot, r0, xx, rr, uu, x_min, bicgScalars, mrScalars,
          norms, j, pc, obs>>

\* b - A * v
Residual(v) == axpby(b, multiply(A, v), One, Neg(One))

\* b - A * P^{-1} * v, the residual of the internal iterate v
TrueResidual(v) == Residual(multiply(P, v))

ZeroVec(n) == [i \in 1..n |-> Zero]

\* lines 42-89: workspace allocation, r0 <- b - A*x, the first copies and norms
Init ==
    /\ \E s \in Systems :
          /\ A = Mat(s.A)
          /\ P = Mat(s.P)
          /\ b = Vec(s.b)
          /\ x0 = Vec(s.x)
    /\ L \in Degrees
    /\ \E mi \in 1..MaxIterations, t \in Tolerances, pol \in Policies :
          monitor = NewMonitor(mi, t, pol)
    /\ x = x0
    /\ r0 = Residual(x0)
    /\ r = r0
    /\ u = ZeroVec(Len(b))
    /\ xx = x0
    /\ rr = [k \in 0..L |-> IF k = 0 THEN r0 ELSE ZeroVec(Len(b))]
    /\ uu = [k \in 0..L |-> ZeroVec(Len(b))]
    /\ x_min = ZeroVec(Len(b))
    /\ rho0 = One
    /\ alpha = Zero
    /\ omega = One
    /\ rho1 = Undef
    /\ gamma_j = Undef
    /\ tao = [i \in 0..L |-> [k \in 0..L |-> Undef]]
    /\ sigma = [k \in 0..(L + 1) |-> Undef]
    /\ gamma = [k \in 0..(L + 1) |-> Undef]
    /\ gamma_prime = [k \in 0..(L + 1) |-> Undef]
    /\ gamma_primeprime = [k \in 0..(L + 1) |-> Undef]
    /\ r_norm_min = nrm2sq(r0)
    /\ r_norm = nrm2sq(r0)
    /\ r_norm_act = nrm2sq(r0)
    /\ j = 0
    /\ pc = "outer"
    /\ obs = [nStop |-> 0, nUpdate |-> 0, nFin |-> 0, needArg |-> Undef,
              finArg |-> Undef, finTrue |-> FALSE, nApply |-> 0, badDiv |-> FALSE,
              iterates |-> {}]

\* one more call of monitor.stop() in the record of calls
Counted(k) == IF k < MaxCount THEN k + 1 ELSE k

\* fabs(step) * nrm2(v) < eps * nrm2(w) with eps = 1e-20, on the squares.  Every
\* scalar of the model is a ratio of integers below 2^31, so a nonzero left side
\* is above eps^2 times any right side: the test holds exactly when the left
\* side is zero and w is not.
Stagnant(step, v, w) ==
    /\ IsZero(Mul(Mul(step, step), nrm2sq(v)))
    /\ ~IsZero(nrm2sq(w))

StagUpdate(m, step, v, w) ==
    IF Stagnant(step, v, w) THEN incrementStag(m) ELSE resetStag(m)

\* lines 93-95
OuterBegin ==
    /\ pc = "outer"
    /\ rho0' = Mul(Neg(omega), rho0)
    /\ monitor' = increment(monitor)
    /\ j' = 0
    /\ pc' = "bicg_rho"
    /\ UNCHANGED <<inputs, snapshot, r0, xx, rr, uu, x_min, rho1, alpha, omega, gamma_j,
                   mrScalars, norms, obs>>

\* BiCGRho with the breakdown handled by starting the outer iteration over
BiCGRho_Retry ==
    /\ pc = "bicg_rho"
    /\ rho1' = dotc(rr[j], r0)
    /\ IF IsZero(rho0)
       THEN /\ monitor' = stop(monitor, -10, "rho0 is zero")
            /\ obs' = [obs EXCEPT !.nStop = Counted(@)]
            /\ pc' = "outer"
       ELSE /\ pc' = "bicg_dir"
            /\ UNCHANGED <<monitor, obs>>
    /\ UNCHANGED <<inputs, snapshot, r0, xx, rr, uu, x_min, rho0, alpha, omega, gamma_j,
                   mrScalars, norms, j>>

\* BiCGRho without the test of rho0
BiCGRho_NoCheck ==
    /\ pc = "bicg_rho"
    /\ rho1' = dotc(rr[j], r0)
    /\ pc' = "bicg_dir"
    /\ UNCHANGED <<monitor, obs>>
    /\ UNCHANGED <<inputs, snapshot, r0, xx, rr, uu, x_min, rho0, alpha, omega, gamma_j,
                   mrScalars, norms, j>>

\* lines 98-104
BiCGRho ==
    /\ pc = "bicg_rho"
    /\ rho1' = dotc(rr[j], r0)
    /\ IF IsZero(rho0)
       THEN /\ monitor' = stop(monitor, -10, "rho0 is zero")
            /\ obs' = [obs EXCEPT !.nStop = Counted(@)]
            /\ pc' = "bicg_exit"
       ELSE /\ pc' = "bicg_dir"
            /\ UNCHANGED <<monitor, obs>>
    /\ UNCHANGED <<inputs, snapshot, r0, xx, rr, uu, x_min, rho0, alpha, omega, gamma_j,
                   mrScalars, norms, j>>

\* BiCGDir without the test of gamma
BiCGDir_NoGammaCheck ==
    /\ pc = "bicg_dir"
    /\ LET beta == Div(Mul(alpha, rho1), rho0)
           uu1 == [i \in 0..L |-> IF i <= j THEN axpby(rr[i], uu[i], One, Neg(beta))
                                            ELSE uu[i]]
           uu2 == [uu1 EXCEPT ![j + 1] = multiply(A, multiply(P, uu1[j]))]
       IN  /\ rho0' = rho1
           /\ uu' = uu2
           /\ gamma_j' = dotc(uu2[j + 1], r0)
           /\ obs' = [obs EXCEPT !.nApply = @ + 2, !.badDiv = @ \/ IsZero(rho0)]
           /\ pc' = "bicg_upd"
           /\ UNCHANGED monitor
    /\ UNCHANGED <<inputs, snapshot, r0, xx, rr, x_min, rho1, alpha, omega,
                   mrScalars, norms, j>>

\* lines 106-124
BiCGDir ==
    /\ pc = "bicg_dir"
    /\ LET beta == Div(Mul(alpha, rho1), rho0)
           uu1 == [i \in 0..L |-> IF i <= j THEN axpby(rr[i], uu[i], One, Neg(beta))
                                            ELSE uu[i]]
           uu2 == [uu1 EXCEPT ![j + 1] = multiply(A, multiply(P, uu1[j]))]
           g == dotc(uu2[j + 1], r0)
       IN  /\ rho0' = rho1
           /\ uu' = uu2
           /\ gamma_j' = g
           /\ IF IsZero(g)
              THEN /\ monitor' = stop(monitor, -11, "gamma is zero")
                   /\ obs' = [obs EXCEPT !.nStop = Counted(@), !.nApply = @ + 2,
                                         !.badDiv = @ \/ IsZero(rho0)]
                   /\ pc' = "bicg_exit"
              ELSE /\ obs' = [obs EXCEPT !.nApply = @ + 2, !.badDiv = @ \/ IsZero(rho0)]
                   /\ pc' = "bicg_upd"
                   /\ UNCHANGED monitor
    /\ UNCHANGED <<inputs, snapshot, r0, xx, rr, x_min, rho1, alpha, omega,
                   mrScalars, norms, j>>

\* lines 126-146
BiCGUpdate ==
    /\ pc = "bicg_upd"
    /\ LET a == Div(rho0, gamma_j)
           rr1 == [i \in 0..L |-> IF i <= j THEN axpy(uu[i + 1], rr[i], Neg(a))
                                            ELSE rr[i]]
       IN  /\ alpha' = a
           /\ r_norm' = nrm2sq(rr1[0])
           /\ r_norm_act' = nrm2sq(rr1[0])
           /\ rr' = [rr1 EXCEPT ![j + 1] = multiply(A, multiply(P, rr1[j]))]
           /\ monitor' = StagUpdate(monitor, a, uu[0], xx)
           /\ xx' = axpy(uu[0], xx, a)
           /\ obs' = [obs EXCEPT !.nApply = @ + 2, !.badDiv = @ \/ IsZero(gamma_j),
                                 !.iterates = @ \cup {axpy(uu[0], xx, a)}]
    /\ pc' = "bicg_chk"
    /\ UNCHANGED <<inputs, snapshot, r0, uu, x_min, rho0, rho1, omega, gamma_j,
                   mrScalars, r_norm_min, j>>

\* Checkpoint handing the recurrence norm to finished(), with no recomputation
Checkpoint_TrustsRecurrence ==
    IF needCheckConvergence(monitor, r_norm)
    THEN LET f == finishedNorm(monitor, r_norm)
         IN  [checked |-> TRUE, rr0 |-> rr[0], act |-> r_norm,
              mon |-> f.mon, brk |-> f.ret]
    ELSE [checked |-> FALSE, rr0 |-> rr[0], act |-> r_norm_act,
          mon |-> monitor, brk |-> FALSE]

\* lines 148-163 (and, identically, 229-244 and 274-289): the residual
\* recomputation checkpoint
Checkpoint ==
    IF needCheckConvergence(monitor, r_norm)
    THEN LET rnew == axpby(b, multiply(A, multiply(P, xx)), One, Neg(One))
             f == finishedNorm(monitor, nrm2sq(rnew))
         IN  [checked |-> TRUE, rr0 |-> rnew, act |-> nrm2sq(rnew),
              mon |-> f.mon, brk |-> f.ret]
    ELSE [checked |-> FALSE, rr0 |-> rr[0], act |-> r_norm_act,
          mon |-> monitor, brk |-> FALSE]

\* what a checkpoint leaves in the record of calls
CheckpointObs(c) ==
    [obs EXCEPT !.needArg = r_norm,
                !.finArg = IF c.checked THEN c.act ELSE @,
                !.nFin = IF c.checked THEN @ + 1 ELSE @,
                !.finTrue = @ \/ c.brk,
                !.nApply = IF c.checked THEN @ + 2 ELSE @]

\* lines 148-163
BiCGCheck ==
    /\ pc = "bicg_chk"
    /\ LET c == Checkpoint
       IN  /\ rr' = [rr EXCEPT ![0] = c.rr0]
           /\ r_norm_act' = c.act
           /\ monitor' = c.mon
           /\ obs' = CheckpointObs(c)
           /\ pc' = IF c.brk THEN "bicg_exit" ELSE "bicg_best"
    /\ UNCHANGED <<inputs, snapshot, r0, xx, uu, x_min, bicgScalars, mrScalars,
                   r_norm, r_norm_min, j>>

\* lines 165-169 (and 246-250, 291-295): keep the best iterate
BestUpdate ==
    IF Less(r_norm_act, r_norm_min)
    THEN r_norm_min' = r_norm_act /\ x_min' = xx
    ELSE UNCHANGED <<r_norm_min, x_min>>

\* lines 165-174
BiCGBest ==
    /\ pc = "bicg_best"
    /\ BestUpdate
    /\ IF finished(monitor)
       THEN /\ pc' = "bicg_exit"
            /\ obs' = [obs EXCEPT !.finTrue = TRUE]
            /\ UNCHANGED j
       ELSE /\ j' = j + 1
            /\ pc' = IF j + 1 < L THEN "bicg_rho" ELSE "bicg_exit"
            /\ UNCHANGED obs
    /\ UNCHANGED <<inputs, monitor, snapshot, r0, xx, rr, uu, bicgScalars, mrScalars,
                   r_norm, r_norm_act>>

\* BiCGExit without the test of finished()
BiCGExit_NoBreak ==
    /\ pc = "bicg_exit"
    /\ pc' = "mr_gs"
    /\ UNCHANGED obs
    /\ UNCHANGED <<inputs, monitor, snapshot, r0, xx, rr, uu, x_min, bicgScalars,
                   mrScalars, norms, j>>

\* lines 176-178
BiCGExit ==
    /\ pc = "bicg_exit"
    /\ IF finished(monitor)
       THEN pc' = "final" /\ obs' = [obs EXCEPT !.finTrue = TRUE]
       ELSE pc' = "mr_gs" /\ UNCHANGED obs
    /\ UNCHANGED <<inputs, monitor, snapshot, r0, xx, rr, uu, x_min, bicgScalars,
                   mrScalars, norms, j>>

\* lines 181-192: modified Gram-Schmidt over rr[1..L].  The loops run over a
\* record of what they write: rr, tao, sigma, gamma_prime, whether stop() was
\* reached, the indices of sigma assigned in this pass (fresh), and whether a
\* divisor was zero or not assigned in this pass (bad).
RECURSIVE GSInner(_, _, _)
\* lines 182-185, from index i on
GSInner(g, jj, i) ==
    IF i >= jj THEN g
    ELSE LET t == Div(dotc(g.rr[jj], g.rr[i]), g.sigma[i])
         IN  GSInner([g EXCEPT !.tao[i][jj] = t,
                               !.rr[jj] = axpy(g.rr[i], g.rr[jj], Neg(t)),
                               !.bad = @ \/ IsZero(g.sigma[i]) \/ i \notin g.fresh],
                     jj, i + 1)

RECURSIVE GSOuter(_, _)
\* lines 181-192, from index jj on
GSOuter(g, jj) ==
    IF jj > L THEN g
    ELSE LET g1 == GSInner(g, jj, 1)
             sg == dotc(g1.rr[jj], g1.rr[jj])
             g2 == [g1 EXCEPT !.sigma[jj] = sg, !.fresh = @ \cup {jj}]
         IN  IF IsZero(sg)
             THEN [g2 EXCEPT !.stopped = TRUE]
             ELSE GSOuter([g2 EXCEPT !.gp[jj] = Div(dotc(g2.rr[jj], g2.rr[0]), sg)],
                          jj + 1)

\* lines 181-195
GramSchmidt ==
    /\ pc = "mr_gs"
    /\ LET g == GSOuter([rr |-> rr, tao |-> tao, sigma |-> sigma, gp |-> gamma_prime,
                         stopped |-> FALSE, fresh |-> {}, bad |-> FALSE], 1)
           m == IF g.stopped THEN stop(monitor, -12, "a sigma value is zero")
                             ELSE monitor
       IN  /\ rr' = g.rr
           /\ tao' = g.tao
           /\ sigma' = g.sigma
           /\ gamma_prime' = g.gp
           /\ monitor' = m
           /\ obs' = [obs EXCEPT !.nStop = IF g.stopped THEN Counted(@) ELSE @,
                                 !.badDiv = @ \/ g.bad,
                                 !.finTrue = @ \/ finished(m)]
           /\ pc' = IF finished(m) THEN "final" ELSE "mr_comb"
    /\ j' = L
    /\ UNCHANGED <<inputs, snapshot, r0, xx, uu, x_min, bicgScalars, gamma,
                   gamma_primeprime, norms>>

RECURSIVE BackSubInner(_, _, _)
\* lines 202-203, from index i on
BackSubInner(g, jj, i) ==
    IF i > L THEN g
    ELSE BackSubInner([g EXCEPT ![jj] = Sub(@, Mul(tao[jj][i], g[i]))], jj, i + 1)

RECURSIVE BackSub(_, _)
\* lines 200-204, from index jj down
BackSub(g, jj) ==
    IF jj < 1 THEN g
    ELSE BackSub(BackSubInner([g EXCEPT ![jj] = gamma_prime[jj]], jj, jj + 1), jj - 1)

RECURSIVE FwdSubInner(_, _, _, _)
\* lines 208-209, from index i on
FwdSubInner(gpp, g, jj, i) ==
    IF i >= L THEN gpp
    ELSE FwdSubInner([gpp EXCEPT ![jj] = Add(@, Mul(tao[jj][i], g[i + 1]))], g, jj, i + 1)

RECURSIVE FwdSub(_, _, _)
\* lines 206-210, from index jj on
FwdSub(gpp, g, jj) ==
    IF jj >= L THEN gpp
    ELSE FwdSub(FwdSubInner([gpp EXCEPT ![jj] = g[jj + 1]], g, jj, jj + 1), g, jj + 1)

\* lines 197-227
MRCombine ==
    /\ pc = "mr_comb"
    /\ LET g == BackSub([gamma EXCEPT ![L] = gamma_prime[L]], L - 1)
           rr0 == axpy(rr[L], rr[0], Neg(gamma_prime[L]))
       IN  /\ gamma' = g
           /\ omega' = g[L]
           /\ gamma_primeprime' = FwdSub(gamma_primeprime, g, 1)
           /\ monitor' = increment(StagUpdate(monitor, g[1], rr[0], xx))
           /\ xx' = axpy(rr[0], xx, g[1])
           /\ rr' = [rr EXCEPT ![0] = rr0]
           /\ uu' = [uu EXCEPT ![0] = axpy(uu[L], uu[0], Neg(g[L]))]
           /\ r_norm' = nrm2sq(rr0)
           /\ r_norm_act' = nrm2sq(rr0)
           /\ obs' = [obs EXCEPT !.iterates = @ \cup {axpy(rr[0], xx, g[1])}]
    /\ pc' = "mr_chk"
    /\ UNCHANGED <<inputs, snapshot, r0, x_min, rho0, rho1, alpha, gamma_j,
                   tao, sigma, gamma_prime, r_norm_min, j>>

\* lines 229-244
MRCheck ==
    /\ pc = "mr_chk"
    /\ LET c == Checkpoint
       IN  /\ rr' = [rr EXCEPT ![0] = c.rr0]
           /\ r_norm_act' = c.act
           /\ monitor' = c.mon
           /\ obs' = CheckpointObs(c)
           /\ pc' = IF c.brk THEN "final" ELSE "mr_best"
    /\ UNCHANGED <<inputs, snapshot, r0, xx, uu, x_min, bicgScalars, mrScalars,
                   r_norm, r_norm_min, j>>

\* lines 246-256
MRBest ==
    /\ pc = "mr_best"
    /\ BestUpdate
    /\ IF finished(monitor)
       THEN /\ pc' = "final"
            /\ obs' = [obs EXCEPT !.finTrue = TRUE]
            /\ UNCHANGED <<monitor, j>>
       ELSE /\ monitor' = increment(monitor)
            /\ j' = 1
            /\ pc' = IF 1 < L THEN "mr_in_upd" ELSE "mr_exit"
            /\ UNCHANGED obs
    /\ UNCHANGED <<inputs, snapshot, r0, xx, rr, uu, bicgScalars, mrScalars,
                   r_norm, r_norm_act>>

\* lines 262-272
MRInnerUpdate ==
    /\ pc = "mr_in_upd"
    /\ LET rr0 == axpy(rr[j], rr[0], Neg(gamma_prime[j]))
       IN  /\ uu' = [uu EXCEPT ![0] = axpy(uu[j], uu[0], Neg(gamma[j]))]
           /\ monitor' = StagUpdate(monitor, gamma_primeprime[j], rr[j], xx)
           /\ xx' = axpy(rr[j], xx, gamma_primeprime[j])
           /\ rr' = [rr EXCEPT ![0] = rr0]
           /\ r_norm' = nrm2sq(rr0)
           /\ r_norm_act' = nrm2sq(rr0)
           /\ obs' = [obs EXCEPT !.iterates = @ \cup {axpy(rr[j], xx, gamma_primeprime[j])}]
    /\ pc' = "mr_in_chk"
    /\ UNCHANGED <<inputs, snapshot, r0, x_min, bicgScalars, mrScalars, r_norm_min, j>>

\* lines 274-289
MRInnerCheck ==
    /\ pc = "mr_in_chk"
    /\ LET c == Checkpoint
       IN  /\ rr' = [rr EXCEPT ![0] = c.rr0]
           /\ r_norm_act' = c.act
           /\ monitor' = c.mon
           /\ obs' = CheckpointObs(c)
           /\ pc' = IF c.brk THEN "mr_exit" ELSE "mr_in_best"
    /\ UNCHANGED <<inputs, snapshot, r0, xx, uu, x_min, bicgScalars, mrScalars,
                   r_norm, r_norm_min, j>>

\* lines 291-300
MRInnerBest ==
    /\ pc = "mr_in_best"
    /\ BestUpdate
    /\ IF finished(monitor)
       THEN /\ pc' = "mr_exit"
            /\ obs' = [obs EXCEPT !.finTrue = TRUE]
            /\ UNCHANGED j
       ELSE /\ j' = j + 1
            /\ pc' = IF j + 1 < L THEN "mr_in_upd" ELSE "mr_exit"
            /\ UNCHANGED obs
    /\ UNCHANGED <<inputs, monitor, snapshot, r0, xx, rr, uu, bicgScalars, mrScalars,
                   r_norm, r_norm_act>>

\* MRExit without the break
MRExit_NoBreak ==
    /\ pc = "mr_exit"
    /\ pc' = "loop_end"
    /\ obs' = [obs EXCEPT !.finTrue = @ \/ finished(monitor)]
    /\ UNCHANGED <<inputs, monitor, snapshot, r0, xx, rr, uu, x_min, bicgScalars,
                   mrScalars, norms, j>>

\* lines 302-304
MRExit ==
    /\ pc = "mr_exit"
    /\ IF finished(monitor)
       THEN pc' = "final" /\ obs' = [obs EXCEPT !.finTrue = TRUE]
       ELSE pc' = "loop_end" /\ UNCHANGED obs
    /\ UNCHANGED <<inputs, monitor, snapshot, r0, xx, rr, uu, x_min, bicgScalars,
                   mrScalars, norms, j>>

\* lines 306-313
OuterEnd ==
    /\ pc = "loop_end"
    /\ u' = uu[0]
    /\ x' = xx
    /\ r' = rr[0]
    /\ monitor' = increment(monitor)
    /\ pc' = "outer"
    /\ UNCHANGED <<inputs, r0, xx, rr, uu, x_min, bicgScalars, mrScalars, norms, j, obs>>

\* Finalize preferring xx on a tie (<= for <)
Finalize_TieToXX ==
    /\ pc = "final"
    /\ IF converged(monitor)
       THEN /\ x' = multiply(P, xx)
            /\ UNCHANGED <<monitor, obs>>
       ELSE LET Pxx == multiply(P, xx)
                r_comp == axpby(b, multiply(A, Pxx), One, Neg(One))
                Pxmin == multiply(P, x_min)
                r_comp_min == axpby(b, multiply(A, Pxmin), One, Neg(One))
                r_comp_norm == nrm2sq(r_comp)
                r_comp_min_norm == nrm2sq(r_comp_min)
            IN  /\ IF Leq(r_comp_norm, r_comp_min_norm)
                   THEN /\ x' = Pxx
                        /\ monitor' = updateResidual(monitor, r_comp_norm)
                   ELSE /\ x' = Pxmin
                        /\ monitor' = updateResidual(monitor, r_comp_min_norm)
                /\ obs' = [obs EXCEPT !.nUpdate = @ + 1]
    /\ pc' = "done"
    /\ UNCHANGED <<inputs, r, u, r0, xx, rr, uu, x_min, bicgScalars, mrScalars, norms, j>>

\* lines 316-353
Finalize ==
    /\ pc = "final"
    /\ IF converged(monitor)
       THEN /\ x' = multiply(P, xx)
            /\ UNCHANGED <<monitor, obs>>
       ELSE LET Pxx == multiply(P, xx)
                r_comp == axpby(b, multiply(A, Pxx), One, Neg(One))
                Pxmin == multiply(P, x_min)
                r_comp_min == axpby(b, multiply(A, Pxmin), One, Neg(One))
                r_comp_norm == nrm2sq(r_comp)
                r_comp_min_norm == nrm2sq(r_comp_min)
            IN  /\ IF Less(r_comp_norm, r_comp_min_norm)
                   THEN /\ x' = Pxx
                        /\ monitor' = updateResidual(monitor, r_comp_norm)
                   ELSE /\ x' = Pxmin
                        /\ monitor' = updateResidual(monitor, r_comp_min_norm)
                /\ obs' = [obs EXCEPT !.nUpdate = @ + 1]
    /\ pc' = "done"
    /\ UNCHANGED <<inputs, r, u, r0, xx, rr, uu, x_min, bicgScalars, mrScalars, norms, j>>

Next ==
    \/ OuterBegin
    \/ BiCGRho
    \/ BiCGDir
    \/ BiCGUpdate
    \/ BiCGCheck
    \/ BiCGBest
    \/ BiCGExit
    \/ GramSchmidt
    \/ MRCombine
    \/ MRCheck
    \/ MRBest
    \/ MRInnerUpdate
    \/ MRInnerCheck
    \/ MRInnerBest
    \/ MRExit
    \/ OuterEnd
    \/ Finalize

Spec == Init /\ [][Next]_vars

\* the call runs to its return: one thread of control, every block terminates
FairSpec == Spec /\ WF_vars(Next)

\* ------------------------------------------------------------------------
\* Properties
\* ------------------------------------------------------------------------

\* square of the true residual norm of a solution vector v: || b - A*v ||^2
ResNormSq(v) == nrm2sq(Residual(v))

IsZeroVec(v) == \A i \in 1..Len(v) : IsZero(v[i])

InLoopExit == pc \in {"bicg_exit", "mr_exit", "final", "done"}

\* C1: a call whose initial guess solves the system exactly (b = A*x0) returns
\* converged, with a reported residual norm of 0 and no breakdown reported.
C1_ExactStartConverges ==
    (pc = "done" /\ IsZeroVec(Residual(x0)))
        => /\ converged(monitor)
           /\ monitor.residual = Zero
           /\ obs.nStop = 0

\* C2: every call returns (under FairSpec: the single thread of control keeps
\* running).
C2_Terminates == <>(pc = "done")

\* a call on a singular operator has returned on an exhausted budget, with no
\* breakdown and no convergence
C2_Witness ==
    /\ pc = "done"
    /\ A = Mat(<<<<0, 0>>, <<1, 0>>>>)
    /\ obs.nStop = 0
    /\ Exhausted(monitor)
    /\ ~converged(monitor)

\* C3: a return without convergence leaves in x the preconditioned iterate of
\* xx or x_min with the smaller true residual (that of x_min on a tie) and has
\* called updateResidual exactly once, with the true residual norm of that x.
C3_NonConvergedReturn ==
    (pc = "done" /\ ~converged(monitor))
        => LET n1 == ResNormSq(multiply(P, xx))
               n2 == ResNormSq(multiply(P, x_min))
           IN  /\ x \in {multiply(P, xx), multiply(P, x_min)}
               /\ Leq(ResNormSq(x), n1)
               /\ Leq(ResNormSq(x), n2)
               /\ (n1 = n2 => x = multiply(P, x_min))
               /\ monitor.residual = ResNormSq(x)
               /\ obs.nUpdate = 1

\* a return without convergence where xx and x_min differ and xx has won
C3_Witness ==
    /\ pc = "done"
    /\ ~converged(monitor)
    /\ x = multiply(P, xx)
    /\ x # multiply(P, x_min)
    /\ ~IsZeroVec(x_min)

\* C4: on return the true residual of x is no larger than that of the initial
\* guess nor than that of any iterate the call produced.
C4_ReturnsBest ==
    pc = "done"
        => /\ Leq(ResNormSq(x), ResNormSq(x0))
           /\ \A v \in obs.iterates : Leq(ResNormSq(x), ResNormSq(multiply(P, v)))

\* C5: a zero gamma is reported as stop(-11, "gamma is zero") in the step that
\* computes it, with alpha, rr and xx untouched; a zero rho0 as stop(-10) and a
\* zero sigma as stop(-12); stop() is called nowhere else and with no other code.
C5_BreakdownReported ==
    [][ /\ pc = "bicg_dir" =>
              IF IsZero(gamma_j')
              THEN /\ obs'.nStop = obs.nStop + 1
                   /\ monitor'.code = -11 /\ monitor'.reason = "gamma is zero"
                   /\ alpha' = alpha /\ rr' = rr /\ xx' = xx
                   /\ pc' = "bicg_exit"
              ELSE obs'.nStop = obs.nStop /\ pc' = "bicg_upd"
        /\ pc = "bicg_rho" =>
              IF IsZero(rho0)
              THEN /\ obs'.nStop = obs.nStop + 1
                   /\ monitor'.code = -10 /\ monitor'.reason = "rho0 is zero"
                   /\ pc' = "bicg_exit"
              ELSE obs'.nStop = obs.nStop /\ pc' = "bicg_dir"
        /\ pc = "mr_gs" =>
              IF pc' = "mr_comb"
              THEN /\ obs'.nStop = obs.nStop
                   /\ \A k \in 1..L : ~IsZero(sigma'[k])
              ELSE /\ obs'.nStop = obs.nStop + 1
                   /\ monitor'.code = -12 /\ monitor'.reason = "a sigma value is zero"
                   /\ \E k \in 1..L : sigma'[k] = Zero
        /\ pc \notin {"bicg_dir", "bicg_rho", "mr_gs"} =>
              /\ obs'.nStop = obs.nStop
              /\ monitor'.code \in {monitor.code, -1}
      ]_vars

\* gamma has broken down in the second BiCG step of a degree-2 call
C5_Witness ==
    /\ pc = "bicg_exit"
    /\ L = 2
    /\ j = 1
    /\ monitor.code = -11
    /\ IsZero(gamma_j)

\* C6: stop() is called at most once, and after it nothing but finalization
\* runs: no BiCG step, no minimal-residual phase, no change of xx, x_min,
\* r_norm_min or the recurrence scalars.
C6_BreakdownTerminal ==
    [][ /\ obs'.nStop <= 1
        /\ obs.nStop >= 1 =>
              /\ pc' \in {"final", "done"}
              /\ UNCHANGED <<xx, x_min, r_norm_min, bicgScalars, mrScalars, rr, uu>>
              /\ obs'.nApply = obs.nApply
      ]_vars

\* a degree-2 call has returned after a sigma breakdown
C6_Witness ==
    /\ pc = "done"
    /\ L = 2
    /\ obs.nStop = 1
    /\ monitor.code = -12

\* C7: once a call of finished has returned true the loop is left with no
\* further update of xx, rr, uu, x_min or the scalars and no further operator
\* or preconditioner application in the loop.
C7_FinishedLeavesLoop ==
    [][ obs.finTrue =>
              /\ InLoopExit'
              /\ UNCHANGED <<xx, rr, uu, x_min, r_norm_min, bicgScalars, mrScalars,
                             r, u>>
              /\ obs'.nApply = obs.nApply
              /\ obs'.iterates = obs.iterates
      ]_vars

\* a degree-2 call has converged at the checkpoint inside the last loop
C7_Witness ==
    /\ pc = "mr_exit"
    /\ obs.finTrue
    /\ converged(monitor)

\* C8: r_norm_min is the true residual norm of x_min in every state.
C8_MinIsTrueResidual == r_norm_min = nrm2sq(TrueResidual(x_min))

\* C9: a checkpoint hands needCheckConvergence the recurrence norm of rr[0];
\* when that asks for a check, rr[0] is overwritten with b - A*P^{-1}*xx and
\* finished(norm) gets the norm of that vector; finished(norm) is called
\* nowhere else.
C9_CheckpointRecomputes ==
    [][ /\ pc \in {"bicg_chk", "mr_chk", "mr_in_chk"} =>
              /\ obs'.needArg = nrm2sq(rr[0])
              /\ IF needCheckConvergence(monitor, nrm2sq(rr[0]))
                 THEN /\ rr'[0] = TrueResidual(xx)
                      /\ obs'.nFin = obs.nFin + 1
                      /\ obs'.finArg = nrm2sq(TrueResidual(xx))
                      /\ monitor'.residual = nrm2sq(TrueResidual(xx))
                      /\ r_norm_act' = nrm2sq(TrueResidual(xx))
                 ELSE /\ obs'.nFin = obs.nFin
                      /\ rr' = rr
        /\ pc \notin {"bicg_chk", "mr_chk", "mr_in_chk"} =>
              /\ obs'.nFin = obs.nFin
              /\ obs'.needArg = obs.needArg
      ]_vars

\* a checkpoint has recomputed a residual whose norm differs from the
\* recurrence norm
C9_Witness ==
    /\ pc \in {"bicg_best", "mr_best", "mr_in_best"}
    /\ obs.nFin >= 1
    /\ obs.needArg = r_norm
    /\ obs.finArg = r_norm_act
    /\ r_norm_act # r_norm

\* C10: no division has a zero divisor: rho0 is nonzero where beta is computed,
\* gamma where alpha is computed, every sigma used as a divisor was assigned in
\* the same pass and is nonzero, and a zero omega shows as a zero rho0 in the
\* next BiCG step.
C10_NoZeroDivisor ==
    /\ ~obs.badDiv
    /\ pc = "bicg_dir" => ~IsZero(rho0)
    /\ pc = "bicg_upd" => ~IsZero(gamma_j)
    /\ pc = "mr_comb" => \A k \in 1..L : ~IsZero(sigma[k])
    /\ (pc = "bicg_rho" /\ j = 0 /\ IsZero(omega)) => IsZero(rho0)

\* a zero omega has been caught as a zero rho0
C10_Witness ==
    /\ pc = "bicg_exit"
    /\ IsZero(omega)
    /\ monitor.code = -10

====
